---- MODULE Spec2Model ----
(***************************************************************************)
(* Entitlement ledger, payment settlement and referral crediting of the    *)
(* Reels script bot (src/bot.py), as a state machine.                      *)
(*                                                                         *)
(* The bot runs on one asyncio event loop.  Telegram updates are handled   *)
(* one at a time (build_app never enables concurrent updates), so at most  *)
(* one Telegram handler is in flight; it can be suspended at an await.     *)
(* YooKassa webhooks are served by aiohttp on the same loop and run        *)
(* between the steps of a suspended Telegram handler.  Every database      *)
(* helper opens its own connection and commits before it returns.          *)
(*                                                                         *)
(* Time is counted in whole hours since the start of a UTC day.            *)
(***************************************************************************)
EXTENDS Integers, Sequences, FiniteSets, TLC

VARIABLES
    users,        \* table users: user_id -> row (rows exist only once created)
    payments,     \* table payments, in id order (id = position)
    referrals,    \* table referrals, in id order (id = position)
    scripts,      \* table scripts, in id order (id = position)
    gen_state,    \* context.user_data["gen_state"] of each user
    tg,           \* the Telegram handler in flight and its local variables
    outcome,      \* whose generation or extras request was answered last, and how
    ykStatus,     \* status of each payment at the payment provider
    now,          \* the clock, in hours
    events,       \* number of payments, settled notifications, requests and clock steps so far
    settled,      \* history: per payment id, the succeeded notifications and polls handled
    bonusCredited,\* history: bonusCredited[r][u] = bonuses added to r's balance for u's payments
    freeGrants,   \* history: per user, the times a free generation was granted
    unknownReplies, \* history: the replies to the notifications whose id no payment record held
    undelivered,  \* history: ids of the referral rows whose bonus message could not be delivered
    toolRuns,     \* history: how often the provider generated each extra, per script, button and user
    msg           \* a text to be sent, the limit it is split at, and its chunks once split

vars == <<users, payments, referrals, scripts, gen_state, tg, outcome, ykStatus,
          now, events, settled, bonusCredited, freeGrants, unknownReplies, undelivered, toolRuns,
          msg>>

-----------------------------------------------------------------------------
(* Bounds of the model *)

MaxEvents == 2
MaxPayEvents == 3
MaxGenEvents == 5
MaxSettleEvents == 2
MaxToolEvents == 2
MaxTextLen == 4
MaxLimit == 3

(* Program constants *)

NULL == 0
NoTime == -1
FREE_COOLDOWN_HOURS == 24 * 7
REFERRAL_BONUS == 1
SPLIT_LIMIT == 3900

PACKAGES == [pack_7 |-> 7, pack_30 |-> 30, pack_365 |-> 365]

(* The people who can talk to the bot; ids are Telegram user ids. *)
Ids == {1, 2}

(* The user who buys packages, and the user who may have referred them. *)
Referrer == CHOOSE u \in Ids : \A v \in Ids : u <= v
Buyer == CHOOSE u \in Ids : u # Referrer

(* /start commands: <<user, refid>>, refid = NULL for a plain /start.  The *)
(* buyer opens any deep link, the referrer only the plain command.         *)
BuyerLinks == {Buyer} \X (Ids \cup {NULL})
Links == BuyerLinks \cup {<<Referrer, NULL>>}

(* An id in a deep link that belongs to nobody who has talked to the bot. *)
Stranger == Cardinality(Ids) + 1

(* The buyer opens deep links naming any id, their own included. *)
RefLinks == Links \cup {<<Buyer, Stranger>>}

(* Clock steps: one hour, and one hour short of the cooldown. *)
TickSteps == {1, FREE_COOLDOWN_HOURS - 1}

Events == {"payment.succeeded", "payment.canceled", "payment.waiting_for_capture",
           "refund.succeeded", "payment.other"}

Day(t) == t \div 24

(* Whether the bonus message reaches the referrer: either way, or always. *)
Deliveries == BOOLEAN
Delivered == {TRUE}

-----------------------------------------------------------------------------
(* Database layer *)

NewUserRow == [balance |-> 0, last_free_at |-> NoTime, total_generated |-> 0,
               referred_by |-> NULL]

(* INSERT OR REPLACE: an existing row is written over with the defaults. *)
get_or_create_user_reset(us, user_id) ==
    (user_id :> NewUserRow) @@ us

(* SELECT, then INSERT when no row was found; there is no await between    *)
(* the two.  The username column is not modelled.                          *)
get_or_create_user(us, user_id) ==
    IF user_id \in DOMAIN us THEN us ELSE us @@ (user_id :> NewUserRow)

(* The UPDATE has lost its WHERE clause: every row gets the delta. *)
update_user_balance_unkeyed(us, user_id, delta) ==
    [u \in DOMAIN us |-> [us[u] EXCEPT !.balance = @ + delta]]

(* The balance is set to the delta instead of being raised by it. *)
update_user_balance_overwrite(us, user_id, delta) ==
    IF user_id \in DOMAIN us
    THEN [us EXCEPT ![user_id].balance = delta]
    ELSE us

update_user_balance(us, user_id, delta) ==
    IF user_id \in DOMAIN us
    THEN [us EXCEPT ![user_id].balance = @ + delta]
    ELSE us

set_user_last_free(us, user_id, when_utc) ==
    IF user_id \in DOMAIN us
    THEN [us EXCEPT ![user_id].last_free_at = when_utc]
    ELSE us

inc_total_generated(us, user_id) ==
    IF user_id \in DOMAIN us
    THEN [us EXCEPT ![user_id].total_generated = @ + 1]
    ELSE us

create_payment(ps, user_id, package_code, yk_id, status, referrer_id) ==
    Append(ps, [id |-> Len(ps) + 1, user_id |-> user_id, package_code |-> package_code,
                package_count |-> PACKAGES[package_code], status |-> status,
                yk_id |-> yk_id, referrer_id |-> referrer_id])

NoRow == [id |-> 0]

(* The lookup falls back to the newest record when the id matches none. *)
get_payment_by_yk_id_or_latest(ps, yk_id) ==
    IF \E i \in DOMAIN ps : ps[i].yk_id = yk_id
    THEN ps[CHOOSE i \in DOMAIN ps : ps[i].yk_id = yk_id /\
                    \A j \in DOMAIN ps : ps[j].yk_id = yk_id => i <= j]
    ELSE IF ps = <<>> THEN NoRow ELSE ps[Len(ps)]

get_payment_by_yk_id(ps, yk_id) ==
    IF \E i \in DOMAIN ps : ps[i].yk_id = yk_id
    THEN ps[CHOOSE i \in DOMAIN ps : ps[i].yk_id = yk_id /\
                    \A j \in DOMAIN ps : ps[j].yk_id = yk_id => i <= j]
    ELSE NoRow

(* The UPDATE has lost its WHERE clause. *)
update_payment_status_unkeyed(ps, yk_id, new_status) ==
    [i \in DOMAIN ps |-> [ps[i] EXCEPT !.status = new_status]]

update_payment_status(ps, yk_id, new_status) ==
    [i \in DOMAIN ps |-> IF ps[i].yk_id = yk_id
                         THEN [ps[i] EXCEPT !.status = new_status]
                         ELSE ps[i]]

(* A record is kept per user and reused: nothing new is stored when the   *)
(* user already has one.                                                   *)
create_script_record_cached(ss, user_id) ==
    IF \E i \in DOMAIN ss : ss[i].user_id = user_id
    THEN ss
    ELSE Append(ss, [id |-> Len(ss) + 1, user_id |-> user_id,
                     hooks_generated |-> FALSE, cover_generated |-> FALSE])

(* The model keeps no request text: every request carries the same theme, *)
(* niche and tone, and every record the same content.                      *)
create_script_record(ss, user_id) ==
    Append(ss, [id |-> Len(ss) + 1, user_id |-> user_id,
                hooks_generated |-> FALSE, cover_generated |-> FALSE])

get_last_script(ss, user_id) ==
    LET mine == {i \in DOMAIN ss : ss[i].user_id = user_id}
    IN IF mine = {} THEN NoRow
       ELSE ss[CHOOSE i \in mine : \A j \in mine : j <= i]

(* The query has lost "AND user_id=?": any user's script is found. *)
get_script_by_id_any(ss, script_id, user_id) ==
    IF script_id \in DOMAIN ss THEN ss[script_id] ELSE NoRow

get_script_by_id(ss, script_id, user_id) ==
    IF script_id \in DOMAIN ss /\ ss[script_id].user_id = user_id
    THEN ss[script_id]
    ELSE NoRow

(* The UPDATE matches no row: the flag is never set. *)
mark_hook_generated_lost(ss, script_id) ==
    ss

mark_hook_generated(ss, script_id) ==
    [i \in DOMAIN ss |-> IF ss[i].id = script_id
                         THEN [ss[i] EXCEPT !.hooks_generated = TRUE]
                         ELSE ss[i]]

mark_cover_generated(ss, script_id) ==
    [i \in DOMAIN ss |-> IF ss[i].id = script_id
                         THEN [ss[i] EXCEPT !.cover_generated = TRUE]
                         ELSE ss[i]]

(* The referrer is written whether or not one is already set. *)
set_user_referred_by_overwrite(us, user_id, referrer_id) ==
    IF user_id \in DOMAIN us
    THEN [us EXCEPT ![user_id].referred_by = referrer_id]
    ELSE us

set_user_referred_by(us, user_id, referrer_id) ==
    IF user_id \in DOMAIN us /\ us[user_id].referred_by = NULL
    THEN [us EXCEPT ![user_id].referred_by = referrer_id]
    ELSE us

create_referral_record(rs, referrer_id, referee_id) ==
    Append(rs, [id |-> Len(rs) + 1, referrer_id |-> referrer_id,
                referee_id |-> referee_id, rewarded |-> FALSE, payment_id |-> NULL])

find_unrewarded_referral(rs, referrer_id, referee_id) ==
    LET hits == {i \in DOMAIN rs : rs[i].referrer_id = referrer_id /\
                                   rs[i].referee_id = referee_id /\ ~rs[i].rewarded}
    IN IF hits = {} THEN NoRow
       ELSE rs[CHOOSE i \in hits : \A j \in hits : i <= j]

mark_referral_rewarded(rs, referral_id, payment_id) ==
    [i \in DOMAIN rs |-> IF rs[i].id = referral_id
                         THEN [rs[i] EXCEPT !.rewarded = TRUE, !.payment_id = payment_id]
                         ELSE rs[i]]

-----------------------------------------------------------------------------
(* Initial state: init_db has created the empty tables. *)

(* No text is being sent. *)
NoMessage == [text |-> <<>>, limit |-> SPLIT_LIMIT, split |-> FALSE, chunks |-> <<>>]

NoOutcome == [user |-> NULL, how |-> "none"]

(* The count of provider generations per extra: none yet, and one more. *)
NoRuns == <<>>

AddRun(runs, e) ==
    IF e \in DOMAIN runs THEN [runs EXCEPT ![e] = @ + 1] ELSE runs @@ (e :> 1)

Idle == [pc |-> "idle", user |-> NULL, row_balance |-> 0, row_last_free_at |-> NoTime,
         paid_by |-> "", yk_id |-> NULL, script_id |-> NULL, data |-> ""]

Init ==
    /\ users = <<>>
    /\ payments = <<>>
    /\ referrals = <<>>
    /\ scripts = <<>>
    /\ gen_state = [u \in Ids |-> "none"]
    /\ tg = Idle
    /\ outcome = NoOutcome
    /\ ykStatus = <<>>
    /\ now = 0
    /\ events = 0
    /\ settled = <<>>
    /\ bonusCredited = [r \in Ids |-> [u \in Ids |-> 0]]
    /\ freeGrants = [u \in Ids |-> <<>>]
    /\ unknownReplies = <<>>
    /\ undelivered = {}
    /\ toolRuns = NoRuns
    /\ msg = NoMessage

Tick(max) ==
    /\ events < max
    /\ \E d \in TickSteps : now' = now + d
    /\ events' = events + 1
    /\ UNCHANGED <<users, payments, referrals, scripts, gen_state, tg, outcome, ykStatus,
                   settled, bonusCredited, freeGrants,
                       unknownReplies, undelivered, toolRuns, msg>>

-----------------------------------------------------------------------------
(* Referral bonus *)

(* The database part of _reward_referrer_and_notify; it runs without an    *)
(* await.  bonus_to is the user whose balance was raised (NULL if none),   *)
(* notified the chat the bonus message is sent to afterwards, rid the      *)
(* referral row that was marked.                                           *)
reward_referrer(us, rs, payment_row) ==
    LET referrer_id == payment_row.referrer_id
        referee_id == payment_row.user_id
        ref == find_unrewarded_referral(rs, referrer_id, referee_id)
        bonus_to == IF referrer_id \in DOMAIN us THEN referrer_id ELSE NULL
    IN IF referrer_id = NULL
       THEN [users |-> us, referrals |-> rs, bonus_to |-> NULL, notified |-> NULL,
             rid |-> NULL]
       ELSE IF ref = NoRow
       THEN LET rs1 == create_referral_record(rs, referrer_id, referee_id)
                rid == Len(rs1)
            IN [users |-> update_user_balance(us, referrer_id, REFERRAL_BONUS),
                referrals |-> mark_referral_rewarded(rs1, rid, payment_row.id),
                bonus_to |-> bonus_to, notified |-> referrer_id, rid |-> rid]
       ELSE [users |-> update_user_balance(us, referrer_id, REFERRAL_BONUS),
             referrals |-> mark_referral_rewarded(rs, ref.id, payment_row.id),
             bonus_to |-> bonus_to, notified |-> referrer_id, rid |-> ref.id]

(* A bonus whose message cannot be delivered is taken back. *)
_reward_referrer_and_notify_undone(us, rs, payment_row, delivered) ==
    LET r == reward_referrer(us, rs, payment_row)
    IN IF r.notified # NULL /\ ~delivered
       THEN [users |-> us, referrals |-> rs, bonus_to |-> NULL, notified |-> r.notified,
             failed |-> {r.rid}]
       ELSE [users |-> r.users, referrals |-> r.referrals, bonus_to |-> r.bonus_to,
             notified |-> r.notified, failed |-> {}]

(* The bonus message follows the database part; send_message raising is    *)
(* caught and logged.  failed holds the row whose message was not          *)
(* delivered.                                                              *)
_reward_referrer_and_notify(us, rs, payment_row, delivered) ==
    LET r == reward_referrer(us, rs, payment_row)
    IN [users |-> r.users, referrals |-> r.referrals, bonus_to |-> r.bonus_to,
        notified |-> r.notified,
        failed |-> IF r.notified # NULL /\ ~delivered THEN {r.rid} ELSE {}]

AddBonus(bc, to, referee) ==
    IF to = NULL THEN bc ELSE [bc EXCEPT ![to][referee] = @ + 1]

-----------------------------------------------------------------------------
(* Payment provider *)

(* The payer pays or abandons a payment the provider holds as pending. *)
ProviderSettle ==
    \E p \in DOMAIN ykStatus, s \in {"succeeded", "canceled"} :
        /\ ykStatus[p] = "pending"
        /\ ykStatus' = [ykStatus EXCEPT ![p] = s]
        /\ UNCHANGED <<users, payments, referrals, scripts, gen_state, tg, outcome, now, msg,
                       events, settled, bonusCredited, freeGrants,
                       unknownReplies, undelivered, toolRuns>>

(* Notifications the provider can send for a payment id: at least once,    *)
(* possibly late, and only events that have happened to the payment.  A    *)
(* request to the webhook can also carry no object id (NULL) or an id that *)
(* no payment record holds (UnknownYkId).                                   *)
UnknownYkId == Len(ykStatus) + 1

CanNotify(event, yk_id) ==
    \/ yk_id \notin DOMAIN ykStatus
    \/ /\ yk_id \in DOMAIN ykStatus
       /\ CASE event = "payment.succeeded" -> ykStatus[yk_id] = "succeeded"
            [] event = "refund.succeeded" -> ykStatus[yk_id] = "succeeded"
            [] event = "payment.canceled" -> ykStatus[yk_id] = "canceled"
            [] OTHER -> TRUE

yk_webhook_handler(max, deliveries) ==
    \E event \in Events, yk_id \in (DOMAIN ykStatus) \cup {NULL, UnknownYkId},
       delivered \in deliveries :
        /\ CanNotify(event, yk_id)
        /\ LET counted == \/ event = "payment.succeeded" /\ yk_id \in DOMAIN ykStatus
                          \/ yk_id = UnknownYkId
           IN /\ counted => events < max
              /\ events' = IF counted THEN events + 1 ELSE events
        /\ unknownReplies' = IF yk_id # NULL /\ \A i \in DOMAIN payments : payments[i].yk_id # yk_id
                             THEN Append(unknownReplies, "ok") ELSE unknownReplies
        /\ IF yk_id = NULL
           THEN UNCHANGED <<users, payments, referrals, settled, bonusCredited, undelivered>>
           ELSE IF event = "payment.succeeded"
           THEN LET ps1 == update_payment_status(payments, yk_id, "succeeded")
                    row == get_payment_by_yk_id(ps1, yk_id)
                IN IF row # NoRow
                   THEN LET us1 == update_user_balance(users, row.user_id, row.package_count)
                            r == _reward_referrer_and_notify(us1, referrals, row, delivered)
                        IN /\ payments' = ps1
                           /\ users' = r.users
                           /\ referrals' = r.referrals
                           /\ settled' = [settled EXCEPT ![row.id].webhook = @ + 1]
                           /\ bonusCredited' = AddBonus(bonusCredited, r.bonus_to, row.user_id)
                           /\ undelivered' = undelivered \cup r.failed
                   ELSE UNCHANGED <<users, payments, referrals, settled, bonusCredited, undelivered>>
           ELSE IF event \in {"payment.canceled", "payment.waiting_for_capture",
                              "refund.succeeded"}
           THEN /\ payments' = update_payment_status(payments, yk_id, "canceled")
                /\ UNCHANGED <<users, referrals, settled, bonusCredited, undelivered>>
           ELSE UNCHANGED <<users, payments, referrals, settled, bonusCredited, undelivered>>
        /\ UNCHANGED <<scripts, gen_state, tg, outcome, ykStatus, now, msg, freeGrants, toolRuns>>

(* yk_webhook_handler for payment.succeeded when update_user_balance raises *)
(* (the database is locked or full): update_payment_status has committed,  *)
(* the exception leaves the handler and the request is answered with 500.  *)
yk_webhook_handler_storage_error(max) ==
    \E yk_id \in DOMAIN ykStatus :
        /\ CanNotify("payment.succeeded", yk_id)
        /\ events < max
        /\ events' = events + 1
        /\ payments' = update_payment_status(payments, yk_id, "succeeded")
        /\ UNCHANGED <<users, referrals, scripts, gen_state, tg, outcome, ykStatus, now, msg,
                       settled, bonusCredited, freeGrants, unknownReplies, undelivered, toolRuns>>

-----------------------------------------------------------------------------
(* Telegram handlers *)

(* Any parsed id is taken, the sender's own included. *)
names_referrer_own(user_id, refid) ==
    refid # NULL

(* The test start_cmd puts on the deep-link parameter: it parsed as ref<id> *)
(* and the id is not the sender's.                                          *)
names_referrer(user_id, refid) ==
    refid # NULL /\ refid # user_id

start_cmd(links) ==
    \E link \in links :
      LET user == link[1]
          refid == link[2]
      IN
        /\ tg.pc = "idle"
        /\ IF names_referrer(user, refid)
           THEN LET us1 == get_or_create_user(users, user)
                    existing == find_unrewarded_referral(referrals, refid, user)
                IN /\ users' = set_user_referred_by(us1, user, refid)
                   /\ referrals' = IF existing = NoRow
                                   THEN create_referral_record(referrals, refid, user)
                                   ELSE referrals
           ELSE /\ users' = get_or_create_user(users, user)
                /\ UNCHANGED referrals
        /\ UNCHANGED <<payments, scripts, gen_state, tg, outcome, ykStatus, now, msg,
                       events, settled, bonusCredited, freeGrants,
                       unknownReplies, undelivered, toolRuns>>

(* main_menu_cb, data = "buy::<package_code>" *)
cb_buy(U, codes, max) ==
    \E user \in U, package_code \in codes, created \in BOOLEAN :
        /\ tg.pc = "idle"
        /\ created => events < max
        /\ events' = IF created THEN events + 1 ELSE events
        /\ LET us1 == get_or_create_user(users, user)
               referrer_id == us1[user].referred_by
               yk_id == Len(ykStatus) + 1
           IN /\ users' = us1
              /\ IF created
                 THEN /\ ykStatus' = Append(ykStatus, "pending")
                      /\ payments' = create_payment(payments, user, package_code, yk_id,
                                                    "pending", referrer_id)
                      /\ settled' = Append(settled, [webhook |-> 0, poll |-> 0])
                 ELSE UNCHANGED <<ykStatus, payments, settled>>
        /\ UNCHANGED <<referrals, scripts, gen_state, tg, outcome, now, msg, bonusCredited,
                       freeGrants,
                       unknownReplies, undelivered, toolRuns>>

(* main_menu_cb, data = "check_pay", up to the await of yk_get_payment *)
cb_check_pay(U) ==
    \E user \in U :
        /\ tg.pc = "idle"
        /\ users' = get_or_create_user(users, user)
        /\ LET pending == {i \in DOMAIN payments : payments[i].user_id = user /\
                                                   payments[i].status = "pending"}
           IN IF pending = {}
              THEN UNCHANGED tg
              ELSE LET row == payments[CHOOSE i \in pending : \A j \in pending : j <= i]
                   IN tg' = [Idle EXCEPT !.pc = "check_pay", !.user = user,
                                         !.yk_id = row.yk_id]
        /\ UNCHANGED <<payments, referrals, scripts, gen_state, outcome, ykStatus, now, msg,
                       events, settled, bonusCredited, freeGrants,
                       unknownReplies, undelivered, toolRuns>>

(* main_menu_cb, data = "check_pay", from the provider's answer on.  row is *)
(* the record selected before the await; its user_id and package_count     *)
(* never change, so they are read from the table.                          *)
cb_check_pay_answer(answered, deliveries) ==
    \E delivered \in deliveries :
        /\ tg.pc = "check_pay"
        /\ tg' = Idle
        /\ LET row == get_payment_by_yk_id(payments, tg.yk_id)
               status == ykStatus[tg.yk_id]
           IN IF ~answered
              THEN UNCHANGED <<users, payments, referrals, settled, bonusCredited, undelivered>>
              ELSE IF status = "succeeded"
              THEN LET ps1 == update_payment_status(payments, row.yk_id, "succeeded")
                       us1 == update_user_balance(users, row.user_id, row.package_count)
                       pay_row == get_payment_by_yk_id(ps1, row.yk_id)
                       r == _reward_referrer_and_notify(us1, referrals, pay_row, delivered)
                   IN /\ payments' = ps1
                      /\ users' = r.users
                      /\ referrals' = r.referrals
                      /\ settled' = [settled EXCEPT ![row.id].poll = @ + 1]
                      /\ bonusCredited' = AddBonus(bonusCredited, r.bonus_to, row.user_id)
                      /\ undelivered' = undelivered \cup r.failed
              ELSE IF status = "canceled"
              THEN /\ payments' = update_payment_status(payments, row.yk_id, "canceled")
                   /\ UNCHANGED <<users, referrals, settled, bonusCredited, undelivered>>
              ELSE UNCHANGED <<users, payments, referrals, settled, bonusCredited, undelivered>>
        /\ UNCHANGED <<scripts, gen_state, outcome, ykStatus, now, msg, events, freeGrants,
                       unknownReplies, toolRuns>>

cb_check_pay_result(deliveries) ==
    \E answered \in BOOLEAN : cb_check_pay_answer(answered, deliveries)

(* main_menu_cb, data = "check_pay", when the provider answers succeeded    *)
(* and update_user_balance raises: update_payment_status has committed,    *)
(* the except branch reports the failure and the handler returns.          *)
cb_check_pay_storage_error ==
    /\ tg.pc = "check_pay"
    /\ ykStatus[tg.yk_id] = "succeeded"
    /\ tg' = Idle
    /\ payments' = update_payment_status(payments, tg.yk_id, "succeeded")
    /\ UNCHANGED <<users, referrals, scripts, gen_state, outcome, ykStatus, now, msg, events,
                   settled, bonusCredited, freeGrants, unknownReplies, undelivered, toolRuns>>

(* main_menu_cb, data = "gen" *)
cb_gen(U) ==
    \E user \in U :
        /\ tg.pc = "idle"
        /\ users' = get_or_create_user(users, user)
        /\ gen_state' = [gen_state EXCEPT ![user] = "choose_theme"]
        /\ UNCHANGED <<payments, referrals, scripts, tg, outcome, ykStatus, now, msg,
                       events, settled, bonusCredited, freeGrants,
                       unknownReplies, undelivered, toolRuns>>

(* main_menu_cb, data = "theme::<name>" *)
cb_theme(U) ==
    \E user \in U :
        /\ tg.pc = "idle"
        /\ users' = get_or_create_user(users, user)
        /\ gen_state' = [gen_state EXCEPT ![user] = "await_niche_tone"]
        /\ UNCHANGED <<payments, referrals, scripts, tg, outcome, ykStatus, now, msg,
                       events, settled, bonusCredited, freeGrants,
                       unknownReplies, undelivered, toolRuns>>

(* main_menu_cb, data = "back_main": context.user_data.clear() *)
cb_back_main(U) ==
    \E user \in U :
        /\ tg.pc = "idle"
        /\ users' = get_or_create_user(users, user)
        /\ gen_state' = [gen_state EXCEPT ![user] = "none"]
        /\ UNCHANGED <<payments, referrals, scripts, tg, outcome, ykStatus, now, msg,
                       events, settled, bonusCredited, freeGrants,
                       unknownReplies, undelivered, toolRuns>>

(* on_message_text outside await_niche_tone: a typed theme, or the menu. *)
on_message_text(U) ==
    \E user \in U :
        /\ tg.pc = "idle"
        /\ gen_state[user] # "await_niche_tone"
        /\ gen_state' = IF gen_state[user] = "choose_theme"
                        THEN [gen_state EXCEPT ![user] = "await_niche_tone"]
                        ELSE gen_state
        /\ UNCHANGED <<users, payments, referrals, scripts, tg, outcome, ykStatus, now, msg,
                       events, settled, bonusCredited, freeGrants,
                       unknownReplies, undelivered, toolRuns>>

-----------------------------------------------------------------------------
(* Generation *)

user_row(us, user_id) == IF user_id \in DOMAIN us THEN us[user_id] ELSE NoRow

(* Off-by-one cooldown: the free slot reopens one hour early. *)
can_use_free_early(row, t) ==
    IF row = NoRow \/ row.last_free_at = NoTime
    THEN TRUE
    ELSE (t - row.last_free_at) >= FREE_COOLDOWN_HOURS - 1

(* The cooldown compared the wrong way round. *)
can_use_free_reversed(row, t) ==
    IF row = NoRow \/ row.last_free_at = NoTime
    THEN TRUE
    ELSE (t - row.last_free_at) <= FREE_COOLDOWN_HOURS

(* The free slot reopens with the next UTC day. *)
can_use_free_daily(row, t) ==
    IF row = NoRow \/ row.last_free_at = NoTime
    THEN TRUE
    ELSE Day(t) > Day(row.last_free_at)

can_use_free(row, t) ==
    IF row = NoRow \/ row.last_free_at = NoTime
    THEN TRUE
    ELSE (t - row.last_free_at) >= FREE_COOLDOWN_HOURS

(* The balance test admits an empty balance. *)
paid_by_unchecked(row, t) ==
    IF row # NoRow /\ row.balance >= 0 THEN "balance"
    ELSE IF can_use_free(row, t) THEN "free"
    ELSE ""

(* The free slot is tried before the balance. *)
paid_by_free_first(row, t) ==
    IF can_use_free(row, t) THEN "free"
    ELSE IF row # NoRow /\ row.balance > 0 THEN "balance"
    ELSE ""

(* The free slot is granted without looking at the cooldown. *)
paid_by_no_cooldown(row, t) ==
    IF row # NoRow /\ row.balance > 0 THEN "balance" ELSE "free"

(* What the request is charged to: "balance", "free", or "" when denied. *)
paid_by(row, t) ==
    IF row # NoRow /\ row.balance > 0 THEN "balance"
    ELSE IF can_use_free(row, t) THEN "free"
    ELSE ""

(* on_message_text in await_niche_tone: process_generation up to the await *)
(* of the progress message, or to the end when the request is denied.     *)
process_generation(U, max) ==
    \E user \in U :
        /\ tg.pc = "idle"
        /\ gen_state[user] = "await_niche_tone"
        /\ events < max
        /\ events' = events + 1
        /\ LET row == user_row(users, user)
               pb == paid_by(row, now)
               started == [Idle EXCEPT !.pc = "gen", !.user = user, !.paid_by = pb,
                               !.row_balance = IF row = NoRow THEN 0 ELSE row.balance,
                               !.row_last_free_at =
                                   IF row = NoRow THEN NoTime ELSE row.last_free_at]
           IN IF pb = "balance"
              THEN /\ users' = update_user_balance(users, user, -1)
                   /\ tg' = started
                   /\ UNCHANGED <<gen_state, outcome, freeGrants>>
              ELSE IF pb = "free"
              THEN /\ users' = set_user_last_free(users, user, now)
                   /\ freeGrants' = [freeGrants EXCEPT ![user] = Append(@, now)]
                   /\ tg' = started
                   /\ UNCHANGED <<gen_state, outcome>>
              ELSE /\ outcome' = [user |-> user,
                                  how |-> IF row = NoRow \/ row.last_free_at = NoTime
                                          THEN "denied_no_balance" ELSE "denied_wait"]
                   /\ gen_state' = [gen_state EXCEPT ![user] = "none"]
                   /\ UNCHANGED <<users, tg, freeGrants>>
        /\ UNCHANGED <<payments, referrals, scripts, ykStatus, now, msg, settled,
                       bonusCredited,
                       unknownReplies, undelivered, toolRuns>>

GenOutcomes == {"progress_failed", "provider_failed", "send_failed", "done"}

(* process_generation from the progress message on.  The provider call,    *)
(* create_script_record and inc_total_generated run without an await; the  *)
(* refund after a failed send only adds to the balance, as every webhook    *)
(* does, so the steps after the progress message are taken as one.  told   *)
(* says whether the closing message of the except branch was delivered.    *)
process_generation_resume ==
    \E how \in GenOutcomes, told \in BOOLEAN :
        /\ tg.pc = "gen"
        /\ tg' = Idle
        /\ outcome' = [user |-> tg.user, how |-> how]
        /\ LET user == tg.user
               refund(us) == IF tg.paid_by = "balance"
                             THEN update_user_balance(us, user, 1) ELSE us
               stored == create_script_record(scripts, user)
               cleared == [gen_state EXCEPT ![user] = "none"]
           IN CASE how = "progress_failed" ->
                     UNCHANGED <<users, scripts, gen_state>>
                [] how = "provider_failed" ->
                     /\ users' = refund(users)
                     /\ gen_state' = IF told THEN cleared ELSE gen_state
                     /\ UNCHANGED scripts
                [] how = "send_failed" ->
                     /\ scripts' = stored
                     /\ users' = refund(inc_total_generated(users, user))
                     /\ gen_state' = IF told THEN cleared ELSE gen_state
                [] how = "done" ->
                     /\ scripts' = stored
                     /\ users' = inc_total_generated(users, user)
                     /\ gen_state' = cleared
        /\ UNCHANGED <<payments, referrals, ykStatus, now, msg, events, settled,
                       bonusCredited, freeGrants,
                       unknownReplies, undelivered, toolRuns>>

-----------------------------------------------------------------------------
(* Free extras of a script: one hook and one cover idea *)

(* Callback data of the extras: the two "last script" buttons of the tools *)
(* menu, and the two buttons under a script, which carry its id.           *)
HookButtons == {"tool_hooks", "script_hook"}
CoverButtons == {"tool_covers", "script_cover"}
LastScriptButtons == {"tool_hooks", "tool_covers"}
ToolButtons == HookButtons \cup CoverButtons

(* main_menu_cb for the four buttons, up to the await of the provider.     *)
(* script_id is the id in the callback data of the per-script buttons; it  *)
(* can name no script, or somebody else's.  A press that is turned down   *)
(* is answered at once; outcome records the answer.                        *)
cb_tool(U) ==
    \E user \in U, data \in ToolButtons, script_id \in 1..(Len(scripts) + 1) :
        /\ tg.pc = "idle"
        /\ users' = get_or_create_user(users, user)
        /\ LET row == IF data \in LastScriptButtons
                      THEN get_last_script(scripts, user)
                      ELSE get_script_by_id(scripts, script_id, user)
               generated == IF row = NoRow THEN FALSE
                            ELSE IF data \in HookButtons THEN row.hooks_generated
                            ELSE row.cover_generated
           IN IF row = NoRow
              THEN /\ outcome' = [user |-> user,
                                  how |-> IF data \in LastScriptButtons
                                          THEN "no_script" ELSE "script_not_found"]
                   /\ UNCHANGED tg
              ELSE IF generated
              THEN /\ outcome' = [user |-> user, how |-> "already_generated"]
                   /\ UNCHANGED tg
              ELSE /\ tg' = [Idle EXCEPT !.pc = "tool", !.user = user,
                                         !.script_id = row.id, !.data = data]
                   /\ UNCHANGED outcome
        /\ UNCHANGED <<payments, referrals, scripts, gen_state, ykStatus, now, msg,
                       events, settled, bonusCredited, freeGrants,
                       unknownReplies, undelivered, toolRuns>>

ToolOutcomes == {"progress_failed", "provider_failed", "send_failed", "done"}

(* main_menu_cb for the four buttons, from the progress message on.  The   *)
(* flag is set right after the provider has answered, before the extra is  *)
(* sent; a failure of the progress message or of the provider sets nothing. *)
cb_tool_resume ==
    \E how \in ToolOutcomes :
        /\ tg.pc = "tool"
        /\ tg' = Idle
        /\ IF how \in {"progress_failed", "provider_failed"}
           THEN UNCHANGED <<scripts, toolRuns>>
           ELSE /\ scripts' = IF tg.data \in HookButtons
                              THEN mark_hook_generated(scripts, tg.script_id)
                              ELSE mark_cover_generated(scripts, tg.script_id)
                /\ toolRuns' = AddRun(toolRuns, [script_id |-> tg.script_id,
                                                 data |-> tg.data, user |-> tg.user])
        /\ UNCHANGED <<users, payments, referrals, gen_state, outcome, ykStatus, now, msg,
                       events, settled, bonusCredited, freeGrants,
                       unknownReplies, undelivered>>

-----------------------------------------------------------------------------
(* Splitting a long text into messages *)

(* A text is a sequence of characters: a line break, or anything else. *)
NL == "\n"
Chars == {"a", NL}

RECURSIVE TextsOfLen(_)
TextsOfLen(n) ==
    IF n = 0 THEN {<<>>}
    ELSE {Append(t, c) : t \in TextsOfLen(n - 1), c \in Chars}

Texts == UNION {TextsOfLen(n) : n \in 0..MaxTextLen}

(* str.splitlines(keepends=True): every line keeps its line break, and a  *)
(* text that ends with a line break has no empty last line.                *)
RECURSIVE splitlines(_)
splitlines(text) ==
    IF text = <<>> THEN <<>>
    ELSE LET ends == {i \in DOMAIN text : text[i] = NL}
             n == IF ends = {} THEN Len(text)
                  ELSE CHOOSE i \in ends : \A j \in ends : i <= j
         IN <<SubSeq(text, 1, n)>> \o splitlines(SubSeq(text, n + 1, Len(text)))

(* The loop of split_message over the lines that are left; buf is kept     *)
(* joined, which is empty exactly when the list of lines in it is.         *)
RECURSIVE split_message_loop(_, _, _, _, _)
split_message_loop(lines, limit, parts, buf, cur) ==
    IF lines = <<>>
    THEN IF buf # <<>> THEN Append(parts, buf) ELSE parts
    ELSE LET line == Head(lines)
         IN IF cur + Len(line) > limit /\ buf # <<>>
            THEN split_message_loop(Tail(lines), limit, Append(parts, buf), line, Len(line))
            ELSE split_message_loop(Tail(lines), limit, parts, buf \o line,
                                    cur + Len(line))

split_message(text, limit) ==
    split_message_loop(splitlines(text), limit, <<>>, <<>>, 0)

(* A caller splits the text it is about to send. *)
SplitText ==
    /\ ~msg.split
    /\ msg' = [msg EXCEPT !.split = TRUE, !.chunks = split_message(msg.text, msg.limit)]
    /\ UNCHANGED <<users, payments, referrals, scripts, gen_state, tg, outcome, ykStatus,
                   now, events, settled, bonusCredited, freeGrants, unknownReplies,
                   undelivered, toolRuns>>

-----------------------------------------------------------------------------

(* Everything together, from the empty database: user 1 generates and may *)
(* be the referrer of user 2, who buys pack_7.                            *)
Next ==
    \/ Tick(MaxEvents)
    \/ ProviderSettle
    \/ yk_webhook_handler(MaxEvents, Deliveries)
    \/ start_cmd(BuyerLinks)
    \/ cb_buy({Buyer}, {"pack_7"}, MaxEvents)
    \/ cb_check_pay({Buyer})
    \/ cb_check_pay_result(Deliveries)
    \/ cb_gen({Referrer})
    \/ cb_theme({Referrer})
    \/ cb_back_main({Referrer})
    \/ on_message_text({Referrer})
    \/ process_generation({Referrer}, MaxEvents)
    \/ process_generation_resume

Spec == Init /\ [][Next]_vars

(* Payments, settlement and referrals alone. *)
NextPay ==
    \/ ProviderSettle
    \/ yk_webhook_handler(MaxPayEvents, Delivered)
    \/ start_cmd(Links)
    \/ cb_buy({Buyer}, DOMAIN PACKAGES, MaxPayEvents)
    \/ cb_check_pay({Buyer})
    \/ cb_check_pay_result(Delivered)

SpecPay == Init /\ [][NextPay]_vars

(* Generation alone, from the state in which user 2, referred by user 1,  *)
(* has bought pack_7 and the payment has been settled once.               *)
InitFunded ==
    /\ users = (Referrer :> [NewUserRow EXCEPT !.balance = REFERRAL_BONUS])
               @@ (Buyer :> [NewUserRow EXCEPT !.balance = PACKAGES["pack_7"],
                                               !.referred_by = Referrer])
    /\ payments = create_payment(<<>>, Buyer, "pack_7", 1, "succeeded", Referrer)
    /\ referrals = mark_referral_rewarded(create_referral_record(<<>>, Referrer, Buyer), 1, 1)
    /\ scripts = <<>>
    /\ gen_state = [u \in Ids |-> "none"]
    /\ tg = Idle
    /\ outcome = NoOutcome
    /\ ykStatus = <<"succeeded">>
    /\ now = 0
    /\ events = 0
    /\ settled = <<[webhook |-> 1, poll |-> 0]>>
    /\ bonusCredited = [r \in Ids |-> [u \in Ids |-> IF r = Referrer /\ u = Buyer THEN 1 ELSE 0]]
    /\ freeGrants = [u \in Ids |-> <<>>]
    /\ unknownReplies = <<>>
    /\ undelivered = {}
    /\ toolRuns = NoRuns
    /\ msg = NoMessage

NextGen ==
    \/ Tick(MaxGenEvents)
    \/ cb_gen(Ids)
    \/ cb_theme(Ids)
    \/ cb_back_main(Ids)
    \/ on_message_text(Ids)
    \/ process_generation(Ids, MaxGenEvents)
    \/ process_generation_resume

SpecGen == InitFunded /\ [][NextGen]_vars

(* Settlement of the buyer's payments, of any package. *)
NextSettle ==
    \/ ProviderSettle
    \/ yk_webhook_handler(MaxSettleEvents, Delivered)
    \/ start_cmd(BuyerLinks)
    \/ cb_buy({Buyer}, DOMAIN PACKAGES, MaxSettleEvents)
    \/ cb_check_pay({Buyer})
    \/ cb_check_pay_result(Delivered)

SpecSettle == Init /\ [][NextSettle]_vars

(* Settlement with storage errors between the two commits. *)
NextFault ==
    \/ ProviderSettle
    \/ yk_webhook_handler(MaxSettleEvents, Deliveries)
    \/ yk_webhook_handler_storage_error(MaxSettleEvents)
    \/ cb_buy({Buyer}, {"pack_7"}, MaxSettleEvents)
    \/ cb_check_pay({Buyer})
    \/ cb_check_pay_result(Deliveries)
    \/ cb_check_pay_storage_error

SpecFault == Init /\ [][NextFault]_vars

(* The manual poll alone: no notification is ever delivered.  The buyer    *)
(* keeps pressing "check payment", and the provider answers infinitely     *)
(* often; whether a pending payment is ever paid is up to the payer.       *)
NextPoll ==
    \/ ProviderSettle
    \/ cb_buy({Buyer}, DOMAIN PACKAGES, MaxSettleEvents)
    \/ cb_check_pay({Buyer})
    \/ cb_check_pay_result(Deliveries)

SpecPoll ==
    /\ Init
    /\ [][NextPoll]_vars
    /\ WF_vars(cb_check_pay({Buyer}))
    /\ SF_vars(cb_check_pay_answer(TRUE, Deliveries))

(* Deep links naming any id, with the buyer's payments settled by the     *)
(* webhook.                                                                *)
NextRef ==
    \/ ProviderSettle
    \/ yk_webhook_handler(MaxSettleEvents, Deliveries)
    \/ start_cmd(RefLinks)
    \/ cb_buy({Buyer}, {"pack_7"}, MaxSettleEvents)

SpecRef == Init /\ [][NextRef]_vars

(* Scripts and their extras: the buyer generates scripts, and both users   *)
(* press the four buttons.                                                 *)
NextTools ==
    \/ cb_theme({Buyer})
    \/ process_generation({Buyer}, MaxToolEvents)
    \/ process_generation_resume
    \/ cb_tool(Ids)
    \/ cb_tool_resume

SpecTools == InitFunded /\ [][NextTools]_vars

(* split_message alone, on every short text and small limit. *)
InitSplit ==
    /\ users = <<>>
    /\ payments = <<>>
    /\ referrals = <<>>
    /\ scripts = <<>>
    /\ gen_state = [u \in Ids |-> "none"]
    /\ tg = Idle
    /\ outcome = NoOutcome
    /\ ykStatus = <<>>
    /\ now = 0
    /\ events = 0
    /\ settled = <<>>
    /\ bonusCredited = [r \in Ids |-> [u \in Ids |-> 0]]
    /\ freeGrants = [u \in Ids |-> <<>>]
    /\ unknownReplies = <<>>
    /\ undelivered = {}
    /\ toolRuns = NoRuns
    /\ msg \in {[text |-> t, limit |-> l, split |-> FALSE, chunks |-> <<>>] :
                  t \in Texts, l \in 1..MaxLimit}

NextSplit == SplitText

SpecSplit == InitSplit /\ [][NextSplit]_vars

-----------------------------------------------------------------------------
(* Properties *)

Settlements(p) == settled[p].webhook + settled[p].poll

(* The units of the payments 1..n of user u that have been settled. *)
RECURSIVE Owed(_, _)
Owed(u, n) ==
    IF n = 0 THEN 0
    ELSE Owed(u, n - 1) + (IF payments[n].user_id = u /\ Settlements(n) >= 1
                           THEN payments[n].package_count ELSE 0)

(* What the referrer's balance holds besides bonuses is nothing, and what  *)
(* the buyer's balance holds is what was bought: without generation a      *)
(* balance is the sum of what was credited to it.                          *)
BuyerBalanceIsOwed ==
    Buyer \in DOMAIN users => users[Buyer].balance = Owed(Buyer, Len(payments))

(* C1: however many times the payment.succeeded notification of a payment  *)
(* is delivered to the webhook, the owner's balance holds the payment's    *)
(* units once.                                                             *)
C1_WebhookReplayCreditsOnce ==
    (\A p \in DOMAIN settled : settled[p].poll = 0) => BuyerBalanceIsOwed

(* C2: when the webhook and the manual poll both settle a payment, each    *)
(* once and in any interleaving, the owner's balance holds its units once. *)
C2_WebhookAndPollCreditOnce ==
    (\A p \in DOMAIN settled : settled[p].webhook <= 1) => BuyerBalanceIsOwed

Terminal(p) == payments[p].status \in {"succeeded", "canceled"}

(* C3: a payment that is succeeded or canceled keeps its status, and a     *)
(* later succeeded notification or poll for it changes no balance.         *)
C3_TerminalIsFinal ==
    [][\A p \in DOMAIN payments :
          Terminal(p) => /\ payments'[p].status = payments[p].status
                         /\ settled'[p] # settled[p] => users' = users]_vars

RewardedRows(r, u) ==
    {i \in DOMAIN referrals : referrals[i].referrer_id = r /\ referrals[i].referee_id = u
                              /\ referrals[i].rewarded}

(* C4: when a referee with referred_by = R has made two successful         *)
(* payments, each settled once, and every reward reached R's user record, *)
(* R's balance has grown by one bonus in total.                            *)
C4_OneBonusPerReferee ==
    \A u \in DOMAIN users :
        LET r == users[u].referred_by
            paid == {p \in DOMAIN payments : payments[p].user_id = u /\
                                             payments[p].referrer_id = r /\
                                             payments[p].status = "succeeded" /\
                                             Settlements(p) = 1}
        IN (r # NULL /\ r \in DOMAIN users /\ Cardinality(paid) >= 2 /\
            (\A p \in DOMAIN payments : Settlements(p) <= 1) /\
            bonusCredited[r][u] = Cardinality(RewardedRows(r, u)))
           => users[r].balance = REFERRAL_BONUS

(* C5: a payment id is linked to at most one rewarded referral row. *)
C5_OneRewardPerPayment ==
    \A p \in DOMAIN payments :
        Cardinality({i \in DOMAIN referrals : referrals[i].rewarded /\
                                              referrals[i].payment_id = p}) <= 1

(* C6: no user's balance is ever negative. *)
C6_BalanceNonNegative ==
    \A u \in DOMAIN users : users[u].balance >= 0

(* A request has just taken the last credit of a user whose credit came    *)
(* from a settled payment's referral bonus.                                *)
C6_Witness ==
    /\ tg.pc = "gen" /\ tg.paid_by = "balance"
    /\ users[tg.user].balance = 0
    /\ \E p \in DOMAIN payments : Settlements(p) >= 1 /\ payments[p].referrer_id = tg.user

(* C7: a request whose provider call fails leaves the balance and the      *)
(* free-use timestamp as they were before the request.                     *)
C7_ProviderFailureRestoresEntitlement ==
    [][(tg.pc = "gen" /\ tg'.pc = "idle" /\ outcome'.how = "provider_failed")
         => /\ users'[tg.user].balance = tg.row_balance
            /\ users'[tg.user].last_free_at = tg.row_last_free_at]_vars

FreeSlotOpen(u) ==
    users[u].last_free_at = NoTime \/ now - users[u].last_free_at >= FREE_COOLDOWN_HOURS

Charged(u) == tg.pc = "idle" /\ tg'.pc = "gen" /\ tg'.user = u

(* C8, as stated: a request by a user with an open free slot and a         *)
(* positive balance takes the free slot and leaves the balance alone.      *)
C8_FreeSlotBeforeCredit ==
    [][\A u \in DOMAIN users :
          (Charged(u) /\ FreeSlotOpen(u) /\ users[u].balance > 0)
             => /\ users'[u].balance = users[u].balance
                /\ users'[u].last_free_at = now]_vars

(* C8, amended: a request by a user with an open free slot and a positive  *)
(* balance takes one credit and leaves the free slot open; the free slot   *)
(* is taken only when the balance is 0.                                    *)
C8_CreditBeforeFreeSlot ==
    [][\A u \in DOMAIN users :
          /\ (Charged(u) /\ FreeSlotOpen(u) /\ users[u].balance > 0)
                => /\ users'[u].balance = users[u].balance - 1
                   /\ users'[u].last_free_at = users[u].last_free_at
          /\ (Charged(u) /\ users'[u].last_free_at # users[u].last_free_at)
                => users[u].balance = 0]_vars

C8_Witness ==
    /\ tg.pc = "gen" /\ tg.paid_by = "balance"
    /\ tg.row_balance > 0 /\ tg.row_last_free_at = NoTime
    /\ users[tg.user].last_free_at = NoTime

(* C9: no user is granted two free generations in one UTC day. *)
C9_OneFreePerDay ==
    \A u \in Ids : \A i, j \in DOMAIN freeGrants[u] :
        i # j => Day(freeGrants[u][i]) # Day(freeGrants[u][j])

(* A user who was granted a free generation asks again the same day and    *)
(* is told to wait.                                                        *)
C9_Witness ==
    /\ outcome.how = "denied_wait"
    /\ Len(freeGrants[outcome.user]) = 1
    /\ Day(freeGrants[outcome.user][1]) = Day(now)

(* C10: two free generations of one user are at least 168 hours apart. *)
C10_FreeOncePerWeek ==
    \A u \in Ids : \A i, j \in DOMAIN freeGrants[u] :
        i < j => freeGrants[u][j] >= freeGrants[u][i] + FREE_COOLDOWN_HOURS

(* A second free generation, granted exactly 168 hours after the first. *)
C10_Witness ==
    \E u \in Ids : /\ Len(freeGrants[u]) = 2
                   /\ freeGrants[u][2] = freeGrants[u][1] + FREE_COOLDOWN_HOURS

(* The step is the text message of user u that asks for a script. *)
Requested(u) ==
    /\ tg.pc = "idle" /\ gen_state[u] = "await_niche_tone"
    /\ events' = events + 1 /\ now' = now
    /\ payments' = payments /\ unknownReplies' = unknownReplies
    /\ IF tg'.pc = "gen" THEN tg'.user = u ELSE outcome'.user = u

GrantedFree(u) == tg'.pc = "gen" /\ tg'.user = u /\ tg'.paid_by = "free"

(* C11, as stated: a user without credits who used the free slot on an     *)
(* earlier UTC day is granted a free generation on a request of a later    *)
(* UTC day.                                                                *)
C11_FreeSlotReopensNextDay ==
    [][\A u \in DOMAIN users :
          (Requested(u) /\ users[u].balance = 0 /\ users[u].last_free_at # NoTime /\
           Day(now) > Day(users[u].last_free_at))
             => GrantedFree(u)]_vars

(* C11, amended: a user without credits who used the free slot at time t   *)
(* is granted a free generation by a request at time t + 168 hours or      *)
(* later, which stores the request time, and by no earlier request.        *)
C11_FreeSlotReopensAfterCooldown ==
    [][\A u \in DOMAIN users :
          (Requested(u) /\ users[u].balance = 0 /\ users[u].last_free_at # NoTime)
             => IF now - users[u].last_free_at >= FREE_COOLDOWN_HOURS
                THEN GrantedFree(u) /\ users'[u].last_free_at = now
                ELSE ~GrantedFree(u) /\ users'[u].last_free_at = users[u].last_free_at]_vars

(* A free generation granted on a later UTC day than the one before. *)
C11_Witness ==
    /\ tg.pc = "gen" /\ tg.paid_by = "free" /\ tg.row_balance = 0
    /\ tg.row_last_free_at # NoTime
    /\ Day(now) > Day(tg.row_last_free_at)
    /\ users[tg.user].last_free_at = now

(* C12: a request by a user with no credits and no open free slot is       *)
(* denied: the handler ends without reaching the provider call, and the    *)
(* user records and the stored scripts stay as they were.                  *)
C12_DeniedRequestChangesNothing ==
    [][\A u \in DOMAIN users :
          (Requested(u) /\ users[u].balance = 0 /\ ~FreeSlotOpen(u))
             => /\ tg'.pc = "idle"
                /\ outcome' \in {[user |-> u, how |-> "denied_wait"],
                                 [user |-> u, how |-> "denied_no_balance"]}
                /\ users' = users
                /\ scripts' = scripts
                /\ freeGrants' = freeGrants]_vars

(* A user who has generated before, has no credits left and whose free     *)
(* slot is still closed on a later day has just been denied.               *)
C12_Witness ==
    /\ tg.pc = "idle" /\ outcome.how = "denied_wait"
    /\ users[outcome.user].balance = 0
    /\ users[outcome.user].total_generated >= 1
    /\ ~FreeSlotOpen(outcome.user)
    /\ Day(now) > Day(users[outcome.user].last_free_at)

ProviderCalled ==
    tg.pc = "gen" /\ tg'.pc = "idle" /\ outcome'.how # "progress_failed"

(* C19, as stated: of two allowed requests with the same key the provider  *)
(* is called for the first only; it is not called while a stored script    *)
(* for the key exists.                                                     *)
C19_StoredScriptIsReused ==
    [][ProviderCalled => scripts = <<>>]_vars

(* C19, amended: every allowed request calls the provider, whether or not  *)
(* a script for the same key is stored, and each call that returns a       *)
(* script stores a new record for the user.                                *)
C19_EveryRequestGeneratesAnew ==
    [][(ProviderCalled /\ outcome'.how \in {"send_failed", "done"})
         => /\ Len(scripts') = Len(scripts) + 1
            /\ scripts'[Len(scripts')].user_id = tg.user
            /\ users'[tg.user].total_generated = users[tg.user].total_generated + 1]_vars

(* Two scripts stored for one user by two requests. *)
C19_Witness ==
    \E i, j \in DOMAIN scripts : i < j /\ scripts[i].user_id = scripts[j].user_id

BecomesSucceeded(p) == payments[p].status = "pending" /\ payments'[p].status = "succeeded"

BecomesCanceled(p) == payments[p].status = "pending" /\ payments'[p].status = "canceled"

(* C13: the step that takes a payment from pending to succeeded, in the    *)
(* webhook or in the poll, raises the owner's balance by the unit count    *)
(* stored on the payment, which is the count of its package.               *)
C13_FirstSuccessCreditsUnitCount ==
    [][\A p \in DOMAIN payments :
          BecomesSucceeded(p)
             => LET u == payments[p].user_id
                IN /\ u \in DOMAIN users
                   /\ payments[p].package_count = PACKAGES[payments[p].package_code]
                   /\ users'[u].balance = users[u].balance + payments[p].package_count]_vars

(* The yearly package has been settled once, on top of an earlier credit. *)
C13_Witness ==
    \E p, q \in DOMAIN payments :
        /\ p # q
        /\ payments[p].status = "succeeded" /\ Settlements(p) = 1
        /\ payments[q].status = "succeeded" /\ Settlements(q) = 1
        /\ payments[q].package_code = "pack_365"
        /\ users[payments[q].user_id].balance =
               payments[p].package_count + payments[q].package_count

(* C14: when a payment becomes succeeded and its owner has referred_by = R *)
(* at that moment and no rewarded referral yet, R's balance grows by the   *)
(* bonus, whether the owner opened R's link before or after the payment    *)
(* was created.                                                            *)
C14_FirstPaymentRewardsReferrer ==
    [][\A p \in DOMAIN payments :
          LET u == payments[p].user_id
              R == users[u].referred_by
          IN (BecomesSucceeded(p) /\ R # NULL /\ R \in DOMAIN users /\
              ~\E i \in DOMAIN referrals : referrals[i].referee_id = u /\
                                           referrals[i].rewarded)
                => users'[R].balance = users[R].balance + REFERRAL_BONUS]_vars

RECURSIVE SucceededUnits(_, _)
SucceededUnits(u, n) ==
    IF n = 0 THEN 0
    ELSE SucceededUnits(u, n - 1) + (IF payments[n].user_id = u /\
                                        payments[n].status = "succeeded"
                                     THEN payments[n].package_count ELSE 0)

(* C15: no state has a payment marked succeeded whose units are missing    *)
(* from the owner's balance, storage errors included (nothing is spent     *)
(* here, so the balance is at least the units of the succeeded payments).  *)
C15_SucceededIsCredited ==
    \A u \in DOMAIN users : users[u].balance >= SucceededUnits(u, Len(payments))

(* C16: a payment that is pending locally and succeeded at the provider is *)
(* eventually marked succeeded and credited when the owner keeps polling   *)
(* and no notification arrives, whatever other payments are pending.       *)
C16_PollResolvesEveryPaidPayment ==
    \A p \in 1..MaxSettleEvents :
        (p \in DOMAIN payments /\ payments[p].status = "pending" /\
         ykStatus[p] = "succeeded")
           ~> (p \in DOMAIN payments /\ payments[p].status = "succeeded" /\
               Settlements(p) >= 1)

UnknownHandled == Len(unknownReplies') = Len(unknownReplies) + 1

(* C17, as stated: a notification for an id without a payment record is    *)
(* answered differently from a handled one, and changes no user, payment   *)
(* or referral record.                                                     *)
C17_UnknownPaymentIsSignalled ==
    [][UnknownHandled
         => /\ unknownReplies'[Len(unknownReplies')] # "ok"
            /\ users' = users /\ payments' = payments /\ referrals' = referrals]_vars

(* C17, amended: a notification for an id without a payment record is      *)
(* answered "ok" like a handled one, and changes no user, payment or       *)
(* referral record.                                                        *)
C17_UnknownPaymentIsIgnored ==
    [][UnknownHandled
         => /\ unknownReplies'[Len(unknownReplies')] = "ok"
            /\ users' = users /\ payments' = payments /\ referrals' = referrals]_vars

(* A notification for an unknown id has been answered while a payment of  *)
(* the buyer is pending and unpaid for.                                    *)
C17_Witness ==
    /\ unknownReplies # <<>>
    /\ \E p \in DOMAIN payments : payments[p].status = "pending" /\ Settlements(p) = 0
    /\ users[Buyer].balance = 0

(* C18: the step that takes a payment from pending to canceled changes     *)
(* that payment's status only: no other payment, no user record and no     *)
(* referral record changes.                                                *)
C18_CancelChangesStatusOnly ==
    [][\A p \in DOMAIN payments :
          BecomesCanceled(p)
             => /\ payments' = [payments EXCEPT ![p].status = "canceled"]
                /\ users' = users
                /\ referrals' = referrals
                /\ bonusCredited' = bonusCredited]_vars

(* A payment of a referred buyer was canceled while another one is still   *)
(* pending; the referral is unrewarded and the balance empty.              *)
C18_Witness ==
    \E p, q \in DOMAIN payments :
        /\ payments[p].status = "canceled" /\ ykStatus[p] = "canceled"
        /\ payments[q].status = "pending"
        /\ users[Buyer].balance = 0
        /\ \E i \in DOMAIN referrals : referrals[i].referee_id = Buyer /\
                                         ~referrals[i].rewarded

(* The referrer of the oldest referral record of referee u. *)
FirstReferrer(rs, u) ==
    LET mine == {i \in DOMAIN rs : rs[i].referee_id = u}
    IN IF mine = {} THEN NULL
       ELSE rs[CHOOSE i \in mine : \A j \in mine : i <= j].referrer_id

(* C20: referred_by, once set, never changes; it is never the user's own   *)
(* id, and it is the referrer of the first deep link that was accepted.    *)
C20_ReferredByFirstWriteWins ==
    [][\A u \in DOMAIN users' :
          /\ (u \in DOMAIN users /\ users[u].referred_by # NULL)
                => users'[u].referred_by = users[u].referred_by
          /\ users'[u].referred_by # NULL
                => /\ users'[u].referred_by # u
                   /\ users'[u].referred_by = FirstReferrer(referrals', u)]_vars

(* The buyer opened the links of two different ids; referred_by is the     *)
(* first.                                                                  *)
C20_Witness ==
    \E i, j \in DOMAIN referrals :
        /\ i < j
        /\ referrals[i].referee_id = Buyer /\ referrals[j].referee_id = Buyer
        /\ referrals[i].referrer_id # referrals[j].referrer_id
        /\ users[Buyer].referred_by = referrals[i].referrer_id

(* C21: no user's referred_by is the user's own id. *)
C21_NeverOwnReferrer ==
    \A u \in DOMAIN users : users[u].referred_by # u

(* The buyer has a referrer on record, and it is somebody else. *)
C21_Witness ==
    /\ Buyer \in DOMAIN users
    /\ users[Buyer].referred_by \in (Ids \cup {Stranger}) \ {Buyer}

(* C22: for each script, the hook is generated at most once and the cover  *)
(* idea is generated at most once, whichever of the buttons asked for it.  *)
C22_EachExtraAtMostOnce ==
    \A e1, e2 \in DOMAIN toolRuns :
        /\ toolRuns[e1] = 1
        /\ (/\ e1.script_id = e2.script_id
            /\ (e1.data \in HookButtons) = (e2.data \in HookButtons))
           => e1 = e2

(* One script has got its hook through a "last script" button and its      *)
(* cover idea through the button carrying its id, and the same user has a  *)
(* newer script whose hook came from the "last script" button too.         *)
C22_Witness ==
    \E e1, e2, e3 \in DOMAIN toolRuns :
        /\ e1.script_id = e2.script_id
        /\ e1.data = "tool_hooks"
        /\ e2.data = "script_cover"
        /\ e3.data = "tool_hooks"
        /\ e3.script_id > e1.script_id
        /\ scripts[e3.script_id].user_id = scripts[e1.script_id].user_id

(* C23: when the bonus message to the referrer cannot be delivered, the    *)
(* step that tried to send it still leaves the referral row marked         *)
(* rewarded and the referrer's balance raised by the bonus, and rows whose *)
(* message was lost stay rewarded afterwards.                              *)
C23_LostNoticeKeepsBonus ==
    [][\A i \in undelivered' :
          /\ i \in DOMAIN referrals'
          /\ referrals'[i].rewarded
          /\ i \notin undelivered =>
                LET r == referrals'[i].referrer_id
                IN /\ referrals'[i].payment_id \in DOMAIN payments'
                   /\ payments'[referrals'[i].payment_id].status = "succeeded"
                   /\ r \in DOMAIN users =>
                         users'[r].balance = users[r].balance + REFERRAL_BONUS]_vars

(* The message about the buyer's payment did not reach the referrer, who   *)
(* holds the bonus.                                                        *)
C23_Witness ==
    \E i \in undelivered :
        /\ referrals[i].referrer_id = Referrer
        /\ referrals[i].rewarded
        /\ Referrer \in DOMAIN users
        /\ users[Referrer].balance = REFERRAL_BONUS

(* A step of process_generation for user u: the request is charged, or     *)
(* denied, or the charged request comes to its end.                        *)
GenerationStep(u) ==
    \/ /\ tg.pc = "idle"
       /\ \/ tg'.pc = "gen" /\ tg'.user = u
          \/ /\ gen_state[u] = "await_niche_tone" /\ gen_state'[u] = "none"
             /\ events' = events + 1
    \/ tg.pc = "gen" /\ tg.user = u /\ tg'.pc = "idle"

(* A step that settles payment p as succeeded, by notification or by poll. *)
SettlementStep(p) ==
    p \in DOMAIN settled /\ settled'[p] # settled[p]

(* C24: a generation request of user A changes no other user's record, and *)
(* settling a payment changes no balance but the payer's and that of the   *)
(* referrer stored with the payment.                                       *)
C24_OtherUsersUntouched ==
    [][/\ \A a \in Ids : GenerationStep(a) =>
             \A v \in DOMAIN users : v # a => users'[v] = users[v]
       /\ \A p \in DOMAIN payments : SettlementStep(p) =>
             \A v \in DOMAIN users :
                 v \notin {payments[p].user_id, payments[p].referrer_id}
                    => users'[v].balance = users[v].balance]_vars

(* The referrer is being served a generation while the buyer, whose        *)
(* payment named no referrer, holds the credits of the settled package.    *)
C24_Witness ==
    /\ tg.pc = "gen" /\ tg.user = Referrer
    /\ Buyer \in DOMAIN users
    /\ \E p \in DOMAIN payments :
          /\ payments[p].user_id = Buyer /\ payments[p].referrer_id = NULL
          /\ Settlements(p) = 1
          /\ users[Buyer].balance = payments[p].package_count
    /\ users[Referrer].balance = 0

(* C25: get_or_create_user is idempotent.  A user keeps a record once it   *)
(* has one; a handler that only ensures the record (the first half of      *)
(* check_pay) leaves every existing record as it was and the presser with  *)
(* a record; and on every table the program reaches, a call for an         *)
(* existing id returns the table unchanged, a call for a new id adds the   *)
(* zero-default row and nothing else, and a second call changes nothing.   *)
C25_EnsureUserIsIdempotent ==
    [][/\ \A u \in DOMAIN users : u \in DOMAIN users'
       /\ (tg.pc = "idle" /\ tg'.pc = "check_pay")
             => /\ tg'.user \in DOMAIN users'
                /\ \A u \in DOMAIN users : users'[u] = users[u]
       /\ \A u \in Ids :
             LET us1 == get_or_create_user(users', u)
             IN /\ u \in DOMAIN us1
                /\ u \in DOMAIN users' => us1 = users'
                /\ u \notin DOMAIN users'
                      => /\ us1[u] = NewUserRow
                         /\ DOMAIN us1 = DOMAIN users' \cup {u}
                         /\ \A v \in DOMAIN users' : us1[v] = users'[v]
                /\ get_or_create_user(us1, u) = us1]_vars

(* The buyer, with credits and a referrer on record, has pressed "check    *)
(* payment", which ensured the record once more.                           *)
C25_Witness ==
    /\ tg.pc = "check_pay" /\ tg.user = Buyer
    /\ users[Buyer].balance > 0
    /\ users[Buyer].referred_by = Referrer

(* C26: there is at most one referral row per (referrer, referee) pair.    *)
C26_OneRowPerPair ==
    \A i, j \in DOMAIN referrals :
        /\ referrals[i].referrer_id = referrals[j].referrer_id
        /\ referrals[i].referee_id = referrals[j].referee_id
        => i = j

(* C27: a request that was charged to the balance and ends without a       *)
(* script having been stored gets its credit back.                         *)
C27_FailureReturnsCredit ==
    [][(tg.pc = "gen" /\ tg'.pc = "idle" /\ tg.paid_by = "balance" /\ scripts' = scripts)
          => users'[tg.user].balance = users[tg.user].balance + 1]_vars

(* C28: a text message starts a generation request only in state           *)
(* await_niche_tone, and when the request has been handled (denied, or     *)
(* charged and come to its end) the user's state is idle again.            *)
C28_HandledRequestEndsIdle ==
    [][\A u \in Ids :
          /\ (tg.pc = "idle" /\ tg'.pc = "gen" /\ tg'.user = u)
                => gen_state[u] = "await_niche_tone"
          /\ (GenerationStep(u) /\ tg'.pc = "idle")
                => gen_state'[u] = "none"]_vars

(* The bonuses added to r's balance, over all referees. *)
BonusTotal(r) ==
    IF r \in Ids
    THEN bonusCredited[r][Referrer] + bonusCredited[r][Buyer]
    ELSE 0

(* C29: for every referrer id, the bonuses added to that user's balance    *)
(* are as many as the referral rows of that referrer marked rewarded.      *)
C29_RewardedRowsAreCredited ==
    \A r \in Ids \cup {Stranger} :
        BonusTotal(r) = Cardinality({i \in DOMAIN referrals :
                                       referrals[i].referrer_id = r /\ referrals[i].rewarded})

(* C30: every referral row names the referrer recorded on the referee's    *)
(* user record.                                                            *)
C30_RowsMatchReferredBy ==
    \A i \in DOMAIN referrals :
        /\ referrals[i].referee_id \in DOMAIN users
        /\ referrals[i].referrer_id = users[referrals[i].referee_id].referred_by

(* The balance a user holds in InitFunded, before any request. *)
FundedBalance(u) ==
    IF u = Referrer THEN REFERRAL_BONUS ELSE PACKAGES["pack_7"]

(* Entitlements user u has consumed and not got back: credits taken from   *)
(* the balance and not refunded, and free slots granted.                   *)
NetConsumed(u) ==
    (FundedBalance(u) - users[u].balance) + Len(freeGrants[u])

StoredScripts(u) ==
    Cardinality({i \in DOMAIN scripts : scripts[i].user_id = u})

(* C31: no user has more stored scripts than entitlements consumed net of  *)
(* refunds.                                                                *)
C31_EveryScriptPaidFor ==
    \A u \in DOMAIN users : StoredScripts(u) <= NetConsumed(u)

(* C32: the provider generates an extra only for a script of the user who  *)
(* pressed the button.  A handler in flight for an extra works on a script *)
(* of its own user; a script's flags change only in such a handler; every  *)
(* generation on record was asked for by the script's owner; and a press   *)
(* answered "script not found" changes neither flags nor generations.      *)
C32_ExtrasOnlyForOwner ==
    [][/\ tg'.pc = "tool" => scripts'[tg'.script_id].user_id = tg'.user
       /\ \A i \in DOMAIN scripts :
             scripts'[i] # scripts[i]
                => tg.pc = "tool" /\ tg.script_id = i /\ tg.user = scripts[i].user_id
       /\ \A e \in DOMAIN toolRuns' : scripts'[e.script_id].user_id = e.user
       /\ (tg.pc = "idle" /\ outcome'.how = "script_not_found")
             => scripts' = scripts /\ toolRuns' = toolRuns]_vars

(* The referrer, who owns no script, has pressed a per-script button and   *)
(* been told that the script was not found; the buyer's script has both    *)
(* extras still open and the provider has generated nothing.               *)
C32_Witness ==
    /\ outcome = [user |-> Referrer, how |-> "script_not_found"]
    /\ tg.pc = "idle"
    /\ \E i \in DOMAIN scripts :
          /\ scripts[i].user_id = Buyer
          /\ ~scripts[i].hooks_generated /\ ~scripts[i].cover_generated
    /\ \A i \in DOMAIN scripts : scripts[i].user_id # Referrer
    /\ toolRuns = NoRuns

(* Concatenation of the chunks, in order. *)
RECURSIVE Joined(_)
Joined(parts) ==
    IF parts = <<>> THEN <<>> ELSE Head(parts) \o Joined(Tail(parts))

(* The chunks of a split text are the text, cut into non-empty pieces. *)
SplitKeepsText ==
    msg.split => /\ Joined(msg.chunks) = msg.text
                 /\ \A i \in DOMAIN msg.chunks : msg.chunks[i] # <<>>

(* C33: every chunk split_message returns is at most limit long. *)
C33_ChunksWithinLimit ==
    msg.split => \A i \in DOMAIN msg.chunks : Len(msg.chunks[i]) <= msg.limit

====
